---- MODULE Spec2Model ----
(***************************************************************************)
(* Authentication / session lifecycle of infra-frontend:                   *)
(*   AuthService      (core/services/auth.service.ts, second class of      *)
(*                     src/src/app/core/services/api.service.ts)           *)
(*   authInterceptor  (core/interceptors/auth.interceptor.ts)              *)
(*   authGuard        (core/guards/auth.guards.ts)                         *)
(*   publicAuthGuard  (core/guards/public-auth.guard.ts)                   *)
(* The browser is single threaded: every action below is one synchronous   *)
(* run-to-completion callback (a method call, or the delivery of one       *)
(* network response through the rxjs pipe that waits for it).              *)
(***************************************************************************)
EXTENDS Integers, Sequences, FiniteSets, TLC

\* Number of components/guards that may have an AuthService call pending.
MaxCalls == 2
\* Number of HTTP requests sent through the interceptor.
MaxReqs == 2
\* Number of clock steps followed.
MaxTicks == 5
\* Number of HTTP requests the loading interceptor has in flight at once.
MaxInFlight == 2
\* Number of setTimeout callbacks of LoadingService pending at once.
MaxTimers == 2

Callers == 1..MaxCalls
ReqIds == 1..MaxReqs

----------------------------------------------------------------------------
(* Values *)

\* JavaScript null (localStorage.getItem of an absent key, an empty subject).
null == "null"

TOKEN_KEY == "auth_token"
REFRESH_TOKEN_KEY == "refresh_token"
USER_KEY == "user_data"

\* User records the backend may answer with (user.model.ts: email is the
\* only required field, so the e-mail stands for the record).
Users == {"a@b.com", "c@d.com"}
AccessTokens == {"T1", "T2"}
RefreshTokens == {"R1", "R2"}

\* AuthResponse of auth.model.ts.  refreshToken is a string; the empty string
\* is the falsy value saveAuthData tests for.
AuthResponse == [user : Users, accessToken : AccessTokens,
                 refreshToken : RefreshTokens \cup {""}]

\* Statuses of a failed HTTP exchange (0 is a transport error).
ErrorStatus == {0, 401, 500}

HttpErrorResponse(status, url) ==
    [name |-> "HttpErrorResponse", status |-> status, url |-> url]

\* new Error('No refresh token available')
NoRefreshTokenError == [name |-> "Error", message |-> "No refresh token available"]

\* Body of a successful answer to a request that is not an AuthService call.
Bodies == {[data |-> "d1"], [data |-> "d2"]}

\* What an observable hands to its subscriber (or the network to a pipe).
None == [kind |-> "none"]
NextOf(value) == [kind |-> "next", value |-> value]
ErrorOf(error) == [kind |-> "error", value |-> error]

\* JavaScript truthiness of a value of type string | null.
Truthy(v) == v # null /\ v # ""

\* JSON.stringify / JSON.parse on user records.
JSON_stringify(user) == "{\"email\":\"" \o user \o "\"}"

JSON_parse(str) == CHOOSE user \in Users : JSON_stringify(user) = str

----------------------------------------------------------------------------
(* localStorage: a function from the keys that are present to strings *)

getItem(ls, key) == IF key \in DOMAIN ls THEN ls[key] ELSE null

setItem(ls, key, value) ==
    [k \in DOMAIN ls \cup {key} |-> IF k = key THEN value ELSE ls[k]]

removeItem(ls, key) == [k \in DOMAIN ls \ {key} |-> ls[k]]

----------------------------------------------------------------------------
(* AuthService: synchronous helpers *)

getToken(ls) == getItem(ls, TOKEN_KEY)

getRefreshToken(ls) == getItem(ls, REFRESH_TOKEN_KEY)

\* An isAuthenticated that also wants the user record.
isAuthenticated_NeedsUser(ls) == Truthy(getToken(ls)) /\ Truthy(getItem(ls, USER_KEY))

isAuthenticated(ls) == Truthy(getToken(ls))

\* saveAuthData that forgets the user record.
saveAuthData_NoUser(ls, response) ==
    LET s1 == setItem(ls, TOKEN_KEY, response.accessToken)
    IN  IF Truthy(response.refreshToken)
        THEN setItem(s1, REFRESH_TOKEN_KEY, response.refreshToken)
        ELSE s1

\* saveAuthData that never writes the refresh token.
saveAuthData_NoRefresh(ls, response) ==
    setItem(setItem(ls, TOKEN_KEY, response.accessToken),
            USER_KEY, JSON_stringify(response.user))

saveAuthData(ls, response) ==
    LET s1 == setItem(ls, TOKEN_KEY, response.accessToken)
        s2 == IF Truthy(response.refreshToken)
              THEN setItem(s1, REFRESH_TOKEN_KEY, response.refreshToken)
              ELSE s1
    IN  setItem(s2, USER_KEY, JSON_stringify(response.user))

\* clearAuthData that leaves the refresh token behind.
clearAuthData_KeepRefresh(ls) == removeItem(removeItem(ls, TOKEN_KEY), USER_KEY)

clearAuthData(ls) ==
    removeItem(removeItem(removeItem(ls, TOKEN_KEY), REFRESH_TOKEN_KEY), USER_KEY)

getUserFromStorage(ls) ==
    LET userStr == getItem(ls, USER_KEY)
    IN  IF Truthy(userStr) THEN JSON_parse(userStr) ELSE null

----------------------------------------------------------------------------
(* Reading the expiration of the access token *)

\* JavaScript numbers as far as the expiry tests need them: <<n>> is the
\* number n, <<>> is NaN.  Arithmetic on NaN gives NaN and every comparison
\* with NaN is false.
NaN == <<>>
Num(n) == <<n>>
Times(a, b) == IF a = NaN \/ b = NaN THEN NaN ELSE <<a[1] * b[1]>>
Minus(a, b) == IF a = NaN \/ b = NaN THEN NaN ELSE <<a[1] - b[1]>>
GreaterEq(a, b) == a # NaN /\ b # NaN /\ a[1] >= b[1]

\* What JSON.parse(atob(token.split('.')[1])) yields for the tokens that have
\* a second segment holding base64 of a JSON object: T1 and T2 are the tokens
\* the backend issues (exp in epoch seconds), T0 is a token whose claims lack
\* exp.  For every other string the expression throws.
jwtPayloads ==
    [t \in {"T1", "T2", "T0"} |->
        CASE t = "T1" -> [sub |-> "u1", exp |-> 600]
          [] t = "T2" -> [sub |-> "u1", exp |-> 1200]
          [] t = "T0" -> [sub |-> "u1"]]

\* Values the auth_token key can hold: issued tokens, the token without exp,
\* and a string that is not a JWT.
StoredTokens == AccessTokens \cup {"T0", "garbage"}

ReturnOf(value) == [kind |-> "return", value |-> value]
ThrowOf(error) == [kind |-> "throw", value |-> error]

\* const payload = JSON.parse(atob(token.split('.')[1]))
parsePayload(token) ==
    IF token \in DOMAIN jwtPayloads
    THEN ReturnOf(jwtPayloads[token])
    ELSE ThrowOf("InvalidCharacterError")

\* payload.exp as a number: a missing property is undefined, and undefined
\* in arithmetic is NaN.
expOf(payload) == IF "exp" \in DOMAIN payload THEN Num(payload.exp) ELSE NaN

\* isTokenExpired(), with t the value of Date.now()
isTokenExpired(ls, t) ==
    LET token == getToken(ls) IN
    IF ~Truthy(token) THEN TRUE
    ELSE LET parsed == parsePayload(token) IN
         IF parsed.kind = "throw" THEN TRUE
         ELSE LET expiry == Times(expOf(parsed.value), Num(1000))
              IN  GreaterEq(Num(t), expiry)

\* isTokenExpiringSoon(minutes), with t the value of Date.now()
isTokenExpiringSoon(ls, t, minutes) ==
    LET token == getToken(ls) IN
    IF ~Truthy(token) THEN FALSE
    ELSE LET parsed == parsePayload(token) IN
         IF parsed.kind = "throw" THEN FALSE
         ELSE LET expiry == Times(expOf(parsed.value), Num(1000))
                  threshold == Times(Times(Num(minutes), Num(60)), Num(1000))
              IN  GreaterEq(Num(t), Minus(expiry, threshold))

----------------------------------------------------------------------------
VARIABLES
    localStorage,        \* the browser's durable storage
    currentUserSubject,  \* value of AuthService.currentUserSubject
    routerUrl,           \* target of the last router.navigate, "" before any
    calls,               \* per caller: the AuthService call it waits for
    reqs,                \* per HTTP request: its way through the interceptor
    now,                 \* what Date.now() returns, in milliseconds
    loading,             \* the fields of LoadingService and its pending timers
    last                 \* the callback that ran last and what it delivered

vars == <<localStorage, currentUserSubject, routerUrl, calls, reqs, now, loading,
          last>>

\* What one callback did, as its caller and the network see it:
\*   sent      - URL of the request it handed to the network, or "none"
\*   received  - the network's answer that started the callback, or None
\*   delivered - what it handed to the caller's subscriber, or None
\*   navigated - target of the router.navigate it made, or "none"
Event(op, who, sent, received, delivered, navigated) ==
    [op |-> op, who |-> who, sent |-> sent, received |-> received,
     delivered |-> delivered, navigated |-> navigated]

Idle == [pc |-> "idle"]
Waiting(endpoint) == [pc |-> endpoint]

\* An HTTP request on its way through authInterceptor:
\*   pc            - "idle", "public" (passed through, in flight), "sent"
\*                   (decorated, in flight), "refreshing" (POST /auth/refresh of
\*                   its refreshToken() in flight), "retrying", "done"
\*   authorization - Authorization header of the request last handed to next()
\*   sends         - requests handed to next() for it
\*   refreshCalls  - calls of authService.refreshToken() made for it
\*   logouts       - calls of authService.logout() made for it
\*   notified      - terminal notifications (next or error) its caller got
NewRequest ==
    [pc |-> "idle", url |-> "", authorization |-> "none", sends |-> 0,
     refreshCalls |-> 0, logouts |-> 0, notified |-> 0]

\* LoadingService as constructed: loadingSubject is the value of the
\* BehaviorSubject, loadingStartTime is <<>> for null and <<t>> for the number
\* t, timers holds the due time of every setTimeout callback not yet run.
NewLoadingService ==
    [requestCount |-> 0, loadingSubject |-> FALSE, loadingStartTime |-> <<>>,
     timers |-> <<>>]

----------------------------------------------------------------------------
(* AuthService.login *)

\* login(credentials): POST /auth/login is issued on subscription.
Login(c) ==
    /\ calls[c].pc = "idle"
    /\ calls' = [calls EXCEPT ![c] = Waiting("/auth/login")]
    /\ last' = Event("login", c, "/auth/login", None, None, "none")
    /\ UNCHANGED <<localStorage, currentUserSubject, routerUrl, reqs, now, loading>>

\* tap((response) => { saveAuthData(response); currentUserSubject.next(response.user) })
LoginNext(c, response) ==
    /\ calls[c].pc = "/auth/login"
    /\ localStorage' = saveAuthData(localStorage, response)
    /\ currentUserSubject' = response.user
    /\ calls' = [calls EXCEPT ![c] = Idle]
    /\ last' = Event("login.next", c, "none", NextOf(response), NextOf(response), "none")
    /\ UNCHANGED <<routerUrl, reqs, now, loading>>

\* A login that tears the session down on failure, as refreshToken does.
LoginError_Clears(c, error) ==
    /\ calls[c].pc = "/auth/login"
    /\ localStorage' = clearAuthData(localStorage)
    /\ currentUserSubject' = null
    /\ calls' = [calls EXCEPT ![c] = Idle]
    /\ last' = Event("login.error", c, "none", ErrorOf(error), ErrorOf(error), "none")
    /\ UNCHANGED <<routerUrl, reqs, now, loading>>

\* The pipe of login has no catchError: the error reaches the subscriber.
LoginError(c, error) ==
    /\ calls[c].pc = "/auth/login"
    /\ calls' = [calls EXCEPT ![c] = Idle]
    /\ last' = Event("login.error", c, "none", ErrorOf(error), ErrorOf(error), "none")
    /\ UNCHANGED <<localStorage, currentUserSubject, routerUrl, reqs, now, loading>>

(* AuthService.register *)

Register(c) ==
    /\ calls[c].pc = "idle"
    /\ calls' = [calls EXCEPT ![c] = Waiting("/auth/register")]
    /\ last' = Event("register", c, "/auth/register", None, None, "none")
    /\ UNCHANGED <<localStorage, currentUserSubject, routerUrl, reqs, now, loading>>

\* A register that hands the response on without opening a session.
RegisterNext_NoSession(c, response) ==
    /\ calls[c].pc = "/auth/register"
    /\ calls' = [calls EXCEPT ![c] = Idle]
    /\ last' = Event("register.next", c, "none", NextOf(response), NextOf(response), "none")
    /\ UNCHANGED <<localStorage, currentUserSubject, routerUrl, reqs, now, loading>>

RegisterNext(c, response) ==
    /\ calls[c].pc = "/auth/register"
    /\ localStorage' = saveAuthData(localStorage, response)
    /\ currentUserSubject' = response.user
    /\ calls' = [calls EXCEPT ![c] = Idle]
    /\ last' = Event("register.next", c, "none", NextOf(response), NextOf(response), "none")
    /\ UNCHANGED <<routerUrl, reqs, now, loading>>

RegisterError(c, error) ==
    /\ calls[c].pc = "/auth/register"
    /\ calls' = [calls EXCEPT ![c] = Idle]
    /\ last' = Event("register.error", c, "none", ErrorOf(error), ErrorOf(error), "none")
    /\ UNCHANGED <<localStorage, currentUserSubject, routerUrl, reqs, now, loading>>

(* AuthService.logout *)

\* A logout that clears storage but leaves the user in Session State.
Logout_KeepSubject ==
    /\ localStorage' = clearAuthData(localStorage)
    /\ routerUrl' = "/auth/login"
    /\ last' = Event("logout", 0, "none", None, None, "/auth/login")
    /\ UNCHANGED <<currentUserSubject, calls, reqs, now, loading>>

Logout ==
    /\ localStorage' = clearAuthData(localStorage)
    /\ currentUserSubject' = null
    /\ routerUrl' = "/auth/login"
    /\ last' = Event("logout", 0, "none", None, None, "/auth/login")
    /\ UNCHANGED <<calls, reqs, now, loading>>

(* AuthService.refreshToken *)

\* refreshToken without the fail-fast test.
RefreshToken_NoGuard(c) ==
    /\ calls[c].pc = "idle"
    /\ calls' = [calls EXCEPT ![c] = Waiting("/auth/refresh")]
    /\ last' = Event("refreshToken", c, "/auth/refresh", None, None, "none")
    /\ UNCHANGED <<localStorage, currentUserSubject, routerUrl, reqs, now, loading>>

\* A refreshToken whose fail-fast path tears the session down, as its
\* catchError does for a failed network call.
RefreshToken_FailFastClears(c) ==
    /\ calls[c].pc = "idle"
    /\ IF ~Truthy(getRefreshToken(localStorage))
       THEN /\ last' = Event("refreshToken", c, "none", None,
                             ErrorOf(NoRefreshTokenError), "none")
            /\ localStorage' = clearAuthData(localStorage)
            /\ currentUserSubject' = null
            /\ UNCHANGED calls
       ELSE /\ calls' = [calls EXCEPT ![c] = Waiting("/auth/refresh")]
            /\ last' = Event("refreshToken", c, "/auth/refresh", None, None, "none")
            /\ UNCHANGED <<localStorage, currentUserSubject>>
    /\ UNCHANGED <<routerUrl, reqs, now, loading>>

\* The synchronous part: the fail-fast test, else POST /auth/refresh.
RefreshToken(c) ==
    /\ calls[c].pc = "idle"
    /\ IF ~Truthy(getRefreshToken(localStorage))
       THEN /\ last' = Event("refreshToken", c, "none", None,
                             ErrorOf(NoRefreshTokenError), "none")
            /\ UNCHANGED calls
       ELSE /\ calls' = [calls EXCEPT ![c] = Waiting("/auth/refresh")]
            /\ last' = Event("refreshToken", c, "/auth/refresh", None, None, "none")
    /\ UNCHANGED <<localStorage, currentUserSubject, routerUrl, reqs, now, loading>>

\* A tap of refreshToken that saves but does not publish the user.
RefreshNext_NoPublish(c, response) ==
    /\ calls[c].pc = "/auth/refresh"
    /\ localStorage' = saveAuthData(localStorage, response)
    /\ calls' = [calls EXCEPT ![c] = Idle]
    /\ last' = Event("refreshToken.next", c, "none", NextOf(response), NextOf(response), "none")
    /\ UNCHANGED <<currentUserSubject, routerUrl, reqs, now, loading>>

\* tap of refreshToken
RefreshNext(c, response) ==
    /\ calls[c].pc = "/auth/refresh"
    /\ localStorage' = saveAuthData(localStorage, response)
    /\ currentUserSubject' = response.user
    /\ calls' = [calls EXCEPT ![c] = Idle]
    /\ last' = Event("refreshToken.next", c, "none", NextOf(response), NextOf(response), "none")
    /\ UNCHANGED <<routerUrl, reqs, now, loading>>

\* refreshToken without its catchError (the error only propagates).
RefreshError_NoClear(c, error) ==
    /\ calls[c].pc = "/auth/refresh"
    /\ calls' = [calls EXCEPT ![c] = Idle]
    /\ last' = Event("refreshToken.error", c, "none", ErrorOf(error), ErrorOf(error), "none")
    /\ UNCHANGED <<localStorage, currentUserSubject, routerUrl, reqs, now, loading>>

\* catchError of refreshToken
RefreshError(c, error) ==
    /\ calls[c].pc = "/auth/refresh"
    /\ localStorage' = clearAuthData(localStorage)
    /\ currentUserSubject' = null
    /\ calls' = [calls EXCEPT ![c] = Idle]
    /\ last' = Event("refreshToken.error", c, "none", ErrorOf(error), ErrorOf(error), "none")
    /\ UNCHANGED <<routerUrl, reqs, now, loading>>

----------------------------------------------------------------------------
(* authInterceptor *)

\* String.prototype.includes
includes(str, sub) ==
    \E i \in 1..(Len(str) - Len(sub) + 1) : SubSeq(str, i, i + Len(sub) - 1) = sub

\* An allow-list that misses the registration endpoint.
publicEndpoints_NoRegister == {"/auth/login", "/auth/refresh"}

publicEndpoints == {"/auth/login", "/auth/register", "/auth/refresh"}

isPublicEndpoint(url) == \E endpoint \in publicEndpoints : includes(url, endpoint)

\* URLs the application requests through HttpClient.
RequestUrls == {"/api/devices", "/auth/login", "/auth/register", "/auth/refresh"}

Bearer(token) == "Bearer " \o token

\* A header built from the refresh token instead of the access token.
firstAuthorization_RefreshToken(ls, url) ==
    IF ~isPublicEndpoint(url) /\ Truthy(getToken(ls))
    THEN Bearer(getRefreshToken(ls))
    ELSE "none"

\* The header the interceptor puts on the first send of a request.
firstAuthorization(ls, url) ==
    IF ~isPublicEndpoint(url) /\ Truthy(getToken(ls))
    THEN Bearer(getToken(ls))
    ELSE "none"

\* The test without its getRefreshToken() conjunct.
shouldRefresh_Any401(ls, url, status) ==
    /\ status = 401
    /\ ~includes(url, "/auth/refresh")

\* The test of the outer catchError that opens the refresh-and-retry path.
shouldRefresh(ls, url, status) ==
    /\ status = 401
    /\ ~includes(url, "/auth/refresh")
    /\ Truthy(getRefreshToken(ls))

\* The interceptor body up to next(req) / next(clonedReq).
Intercept(r, url) ==
    /\ reqs[r].pc = "idle"
    /\ reqs' = [reqs EXCEPT ![r] =
                  [@ EXCEPT !.pc = IF isPublicEndpoint(url) THEN "public" ELSE "sent",
                            !.url = url,
                            !.authorization = firstAuthorization(localStorage, url),
                            !.sends = @ + 1]]
    /\ last' = Event("intercept", r, url, None, None, "none")
    /\ UNCHANGED <<localStorage, currentUserSubject, routerUrl, calls, now, loading>>

\* The first send succeeds: nothing in the pipe touches a value.
InterceptNext(r, body) ==
    /\ reqs[r].pc \in {"public", "sent"}
    /\ reqs' = [reqs EXCEPT ![r] = [@ EXCEPT !.pc = "done", !.notified = @ + 1]]
    /\ last' = Event("intercept.next", r, "none", NextOf(body), NextOf(body), "none")
    /\ UNCHANGED <<localStorage, currentUserSubject, routerUrl, calls, now, loading>>

\* An outer catchError that hands the 401 to the caller and refreshes as well.
InterceptError_AlsoRethrows(r, status) ==
    LET url == reqs[r].url
        error == HttpErrorResponse(status, url)
    IN
    /\ reqs[r].pc \in {"public", "sent"}
    /\ IF reqs[r].pc = "sent" /\ shouldRefresh(localStorage, url, status)
       THEN /\ reqs' = [reqs EXCEPT ![r] =
                          [@ EXCEPT !.pc = "refreshing", !.refreshCalls = @ + 1,
                                    !.notified = @ + 1]]
            /\ last' = Event("intercept.error", r, "/auth/refresh",
                             ErrorOf(error), ErrorOf(error), "none")
       ELSE /\ reqs' = [reqs EXCEPT ![r] = [@ EXCEPT !.pc = "done", !.notified = @ + 1]]
            /\ last' = Event("intercept.error", r, "none", ErrorOf(error),
                             ErrorOf(error), "none")
    /\ UNCHANGED <<localStorage, currentUserSubject, routerUrl, calls, now, loading>>

\* An outer catchError that joins a refresh already in flight for another
\* request instead of calling refreshToken() itself.
InterceptError_Coalesced(r, status) ==
    LET url == reqs[r].url
        error == HttpErrorResponse(status, url)
    IN
    /\ reqs[r].pc \in {"public", "sent"}
    /\ IF reqs[r].pc = "sent" /\ shouldRefresh(localStorage, url, status)
       THEN IF \E q \in ReqIds \ {r} : reqs[q].pc = "refreshing"
            THEN /\ reqs' = [reqs EXCEPT ![r] = [@ EXCEPT !.pc = "refreshing"]]
                 /\ last' = Event("intercept.error", r, "none",
                                  ErrorOf(error), None, "none")
            ELSE /\ reqs' = [reqs EXCEPT ![r] =
                               [@ EXCEPT !.pc = "refreshing", !.refreshCalls = @ + 1]]
                 /\ last' = Event("intercept.error", r, "/auth/refresh",
                                  ErrorOf(error), None, "none")
       ELSE /\ reqs' = [reqs EXCEPT ![r] = [@ EXCEPT !.pc = "done", !.notified = @ + 1]]
            /\ last' = Event("intercept.error", r, "none", ErrorOf(error),
                             ErrorOf(error), "none")
    /\ UNCHANGED <<localStorage, currentUserSubject, routerUrl, calls, now, loading>>

\* The first send fails.  A public request has no catchError; a decorated one
\* runs the outer catchError, which either calls authService.refreshToken()
\* (whose fail-fast error would land in the inner catchError) or rethrows.
InterceptError(r, status) ==
    LET url == reqs[r].url
        error == HttpErrorResponse(status, url)
    IN
    /\ reqs[r].pc \in {"public", "sent"}
    /\ IF reqs[r].pc = "sent" /\ shouldRefresh(localStorage, url, status)
       THEN IF Truthy(getRefreshToken(localStorage))
            THEN /\ reqs' = [reqs EXCEPT ![r] =
                               [@ EXCEPT !.pc = "refreshing", !.refreshCalls = @ + 1]]
                 /\ last' = Event("intercept.error", r, "/auth/refresh",
                                  ErrorOf(error), None, "none")
                 /\ UNCHANGED <<localStorage, currentUserSubject, routerUrl>>
            ELSE /\ reqs' = [reqs EXCEPT ![r] =
                               [@ EXCEPT !.pc = "done", !.refreshCalls = @ + 1,
                                         !.logouts = @ + 1, !.notified = @ + 1]]
                 /\ localStorage' = clearAuthData(localStorage)
                 /\ currentUserSubject' = null
                 /\ routerUrl' = "/auth/login"
                 /\ last' = Event("intercept.error", r, "none", ErrorOf(error),
                                  ErrorOf(NoRefreshTokenError), "/auth/login")
       ELSE /\ reqs' = [reqs EXCEPT ![r] = [@ EXCEPT !.pc = "done", !.notified = @ + 1]]
            /\ last' = Event("intercept.error", r, "none", ErrorOf(error),
                             ErrorOf(error), "none")
            /\ UNCHANGED <<localStorage, currentUserSubject, routerUrl>>
    /\ UNCHANGED <<calls, now, loading>>

\* A switchMap that resubmits the request as it was first sent.
InterceptRefreshNext_StaleHeader(r, response) ==
    /\ reqs[r].pc = "refreshing"
    /\ localStorage' = saveAuthData(localStorage, response)
    /\ currentUserSubject' = response.user
    /\ reqs' = [reqs EXCEPT ![r] = [@ EXCEPT !.pc = "retrying", !.sends = @ + 1]]
    /\ last' = Event("intercept.refresh.next", r, reqs[r].url, NextOf(response),
                     None, "none")
    /\ UNCHANGED <<routerUrl, calls, now, loading>>

\* POST /auth/refresh succeeds: the tap of refreshToken, then switchMap
\* resubmits the original request with the token of the response.
InterceptRefreshNext(r, response) ==
    /\ reqs[r].pc = "refreshing"
    /\ localStorage' = saveAuthData(localStorage, response)
    /\ currentUserSubject' = response.user
    /\ reqs' = [reqs EXCEPT ![r] =
                  [@ EXCEPT !.pc = "retrying",
                            !.authorization = Bearer(response.accessToken),
                            !.sends = @ + 1]]
    /\ last' = Event("intercept.refresh.next", r, reqs[r].url, NextOf(response),
                     None, "none")
    /\ UNCHANGED <<routerUrl, calls, now, loading>>

\* An inner catchError that rethrows without logging out.
InterceptRefreshError_NoLogout(r, status) ==
    LET refreshError == HttpErrorResponse(status, "/auth/refresh") IN
    /\ reqs[r].pc = "refreshing"
    /\ localStorage' = clearAuthData(localStorage)
    /\ currentUserSubject' = null
    /\ reqs' = [reqs EXCEPT ![r] = [@ EXCEPT !.pc = "done", !.notified = @ + 1]]
    /\ last' = Event("intercept.refresh.error", r, "none", ErrorOf(refreshError),
                     ErrorOf(refreshError), "none")
    /\ UNCHANGED <<routerUrl, calls, now, loading>>

\* POST /auth/refresh fails: the catchError of refreshToken, then the inner
\* catchError of the interceptor (logout, rethrow).
InterceptRefreshError(r, status) ==
    LET refreshError == HttpErrorResponse(status, "/auth/refresh") IN
    /\ reqs[r].pc = "refreshing"
    /\ localStorage' = clearAuthData(clearAuthData(localStorage))
    /\ currentUserSubject' = null
    /\ routerUrl' = "/auth/login"
    /\ reqs' = [reqs EXCEPT ![r] =
                  [@ EXCEPT !.pc = "done", !.logouts = @ + 1, !.notified = @ + 1]]
    /\ last' = Event("intercept.refresh.error", r, "none", ErrorOf(refreshError),
                     ErrorOf(refreshError), "/auth/login")
    /\ UNCHANGED <<calls, now, loading>>

\* The retried request succeeds.
InterceptRetryNext(r, body) ==
    /\ reqs[r].pc = "retrying"
    /\ reqs' = [reqs EXCEPT ![r] = [@ EXCEPT !.pc = "done", !.notified = @ + 1]]
    /\ last' = Event("intercept.retry.next", r, "none", NextOf(body), NextOf(body),
                     "none")
    /\ UNCHANGED <<localStorage, currentUserSubject, routerUrl, calls, now, loading>>

\* A retry sent through the interceptor again: its 401 starts another refresh.
InterceptRetryError_RefreshAgain(r, status) ==
    LET error == HttpErrorResponse(status, reqs[r].url) IN
    /\ reqs[r].pc = "retrying"
    /\ IF shouldRefresh(localStorage, reqs[r].url, status)
       THEN /\ reqs' = [reqs EXCEPT ![r] =
                          [@ EXCEPT !.pc = "refreshing", !.refreshCalls = @ + 1]]
            /\ last' = Event("intercept.retry.error", r, "/auth/refresh",
                             ErrorOf(error), None, "none")
       ELSE /\ reqs' = [reqs EXCEPT ![r] = [@ EXCEPT !.pc = "done", !.notified = @ + 1]]
            /\ last' = Event("intercept.retry.error", r, "none", ErrorOf(error),
                             ErrorOf(error), "none")
    /\ UNCHANGED <<localStorage, currentUserSubject, routerUrl, calls, now, loading>>

\* The retried request fails: its error leaves switchMap and reaches the
\* inner catchError, which sits after switchMap in the same pipe.
InterceptRetryError(r, status) ==
    LET error == HttpErrorResponse(status, reqs[r].url) IN
    /\ reqs[r].pc = "retrying"
    /\ localStorage' = clearAuthData(localStorage)
    /\ currentUserSubject' = null
    /\ routerUrl' = "/auth/login"
    /\ reqs' = [reqs EXCEPT ![r] =
                  [@ EXCEPT !.pc = "done", !.logouts = @ + 1, !.notified = @ + 1]]
    /\ last' = Event("intercept.retry.error", r, "none", ErrorOf(error),
                     ErrorOf(error), "/auth/login")
    /\ UNCHANGED <<calls, now, loading>>

----------------------------------------------------------------------------
(* Construction *)

\* What durable storage may hold when the tab starts: any subset of the three
\* keys, each with a value an earlier session wrote.
StoredSessions ==
    { ls \in UNION { [ks -> AccessTokens \cup RefreshTokens
                            \cup { JSON_stringify(u) : u \in Users }]
                     : ks \in SUBSET {TOKEN_KEY, REFRESH_TOKEN_KEY, USER_KEY} } :
        /\ TOKEN_KEY \in DOMAIN ls => ls[TOKEN_KEY] \in AccessTokens
        /\ REFRESH_TOKEN_KEY \in DOMAIN ls => ls[REFRESH_TOKEN_KEY] \in RefreshTokens
        /\ USER_KEY \in DOMAIN ls => ls[USER_KEY] \in { JSON_stringify(u) : u \in Users } }

Init ==
    /\ localStorage \in StoredSessions
    /\ currentUserSubject = getUserFromStorage(localStorage)
    /\ routerUrl = ""
    /\ calls = [c \in Callers |-> Idle]
    /\ reqs = [r \in ReqIds |-> NewRequest]
    /\ now = 0
    /\ loading = NewLoadingService
    /\ last = Event("constructor", 0, "none", None, None, "none")

Next ==
    \/ \E c \in Callers : Login(c)
    \/ \E c \in Callers, response \in AuthResponse : LoginNext(c, response)
    \/ \E c \in Callers, s \in ErrorStatus :
          LoginError(c, HttpErrorResponse(s, "/auth/login"))
    \/ \E c \in Callers : Register(c)
    \/ \E c \in Callers, response \in AuthResponse : RegisterNext(c, response)
    \/ \E c \in Callers, s \in ErrorStatus :
          RegisterError(c, HttpErrorResponse(s, "/auth/register"))
    \/ \E c \in Callers : RefreshToken(c)
    \/ \E c \in Callers, response \in AuthResponse : RefreshNext(c, response)
    \/ \E c \in Callers, s \in ErrorStatus :
          RefreshError(c, HttpErrorResponse(s, "/auth/refresh"))
    \/ Logout

Spec == Init /\ [][Next]_vars

\* The application starts with nothing in durable storage.
InitEmpty ==
    /\ localStorage = [k \in {} |-> ""]
    /\ currentUserSubject = getUserFromStorage(localStorage)
    /\ routerUrl = ""
    /\ calls = [c \in Callers |-> Idle]
    /\ reqs = [r \in ReqIds |-> NewRequest]
    /\ now = 0
    /\ loading = NewLoadingService
    /\ last = Event("constructor", 0, "none", None, None, "none")

\* AuthService from a first visit.
SpecEmpty == InitEmpty /\ [][Next]_vars

\* The HTTP pipeline: requests through the interceptor, while the user may
\* log out or a login may complete in between.
NextHttp ==
    \/ \E r \in ReqIds, url \in RequestUrls : Intercept(r, url)
    \/ \E r \in ReqIds, body \in Bodies : InterceptNext(r, body)
    \/ \E r \in ReqIds, status \in ErrorStatus : InterceptError(r, status)
    \/ \E r \in ReqIds, response \in AuthResponse : InterceptRefreshNext(r, response)
    \/ \E r \in ReqIds, status \in ErrorStatus : InterceptRefreshError(r, status)
    \/ \E r \in ReqIds, body \in Bodies : InterceptRetryNext(r, body)
    \/ \E r \in ReqIds, status \in ErrorStatus : InterceptRetryError(r, status)
    \/ Logout

SpecHttp == Init /\ [][NextHttp]_vars

----------------------------------------------------------------------------
(* Route guards *)

\* The clock advances; TickMs is the step between two readings the model
\* tells apart, MaxTicks the number of steps it follows.
TickMs == 150 * 1000

Tick ==
    /\ now < MaxTicks * TickMs
    /\ now' = now + TickMs
    /\ last' = Event("tick", 0, "none", None, None, "none")
    /\ UNCHANGED <<localStorage, currentUserSubject, routerUrl, calls, reqs, loading>>

\* Routes under path 'app' (guarded by authGuard) a navigation may target.
ProtectedUrls == {"/app/dashboard", "/app/devices"}

\* The boolean a guard hands to the router.
CanActivate(b) == [canActivate |-> b]

\* router.navigate(['/auth/login'], { queryParams: { returnUrl: url } })
LoginUrl(url) == "/auth/login?returnUrl=" \o url

\* A guard run whose refreshToken() call is in flight.
GuardWaiting(url) == [pc |-> "authGuard", url |-> url]

\* An authGuard that sends the unauthenticated user to the login page without
\* the attempted URL.
AuthGuard_NoReturnUrl(c, url) ==
    /\ calls[c].pc = "idle"
    /\ IF ~isAuthenticated(localStorage)
       THEN /\ routerUrl' = "/auth/login"
            /\ last' = Event("authGuard", c, "none", None,
                             ReturnOf(CanActivate(FALSE)), "/auth/login")
            /\ UNCHANGED calls
       ELSE IF isTokenExpired(localStorage, now)
               \/ isTokenExpiringSoon(localStorage, now, 5)
            THEN IF ~Truthy(getRefreshToken(localStorage))
                 THEN /\ routerUrl' = LoginUrl(url)
                      /\ last' = Event("authGuard", c, "none", None,
                                       NextOf(CanActivate(FALSE)), LoginUrl(url))
                      /\ UNCHANGED calls
                 ELSE /\ calls' = [calls EXCEPT ![c] = GuardWaiting(url)]
                      /\ last' = Event("authGuard", c, "/auth/refresh", None,
                                       None, "none")
                      /\ UNCHANGED routerUrl
            ELSE /\ last' = Event("authGuard", c, "none", None,
                                  ReturnOf(CanActivate(TRUE)), "none")
                 /\ UNCHANGED <<routerUrl, calls>>
    /\ UNCHANGED <<localStorage, currentUserSubject, reqs, now, loading>>

\* An authGuard that refreshes on every activation of an authenticated user.
AuthGuard_AlwaysRefresh(c, url) ==
    /\ calls[c].pc = "idle"
    /\ IF ~isAuthenticated(localStorage)
       THEN /\ routerUrl' = LoginUrl(url)
            /\ last' = Event("authGuard", c, "none", None,
                             ReturnOf(CanActivate(FALSE)), LoginUrl(url))
            /\ UNCHANGED calls
       ELSE IF ~Truthy(getRefreshToken(localStorage))
            THEN /\ routerUrl' = LoginUrl(url)
                 /\ last' = Event("authGuard", c, "none", None,
                                  NextOf(CanActivate(FALSE)), LoginUrl(url))
                 /\ UNCHANGED calls
            ELSE /\ calls' = [calls EXCEPT ![c] = GuardWaiting(url)]
                 /\ last' = Event("authGuard", c, "/auth/refresh", None,
                                  None, "none")
                 /\ UNCHANGED routerUrl
    /\ UNCHANGED <<localStorage, currentUserSubject, reqs, now, loading>>

\* authGuard up to its return: false, true, or the refreshToken() pipe.  When
\* refreshToken() fails fast, the pipe's catchError runs at subscription.
\* (getTokenExpirationTime() is read into locals that nothing uses.)
AuthGuard(c, url) ==
    /\ calls[c].pc = "idle"
    /\ IF ~isAuthenticated(localStorage)
       THEN /\ routerUrl' = LoginUrl(url)
            /\ last' = Event("authGuard", c, "none", None,
                             ReturnOf(CanActivate(FALSE)), LoginUrl(url))
            /\ UNCHANGED calls
       ELSE IF isTokenExpired(localStorage, now)
               \/ isTokenExpiringSoon(localStorage, now, 5)
            THEN IF ~Truthy(getRefreshToken(localStorage))
                 THEN /\ routerUrl' = LoginUrl(url)
                      /\ last' = Event("authGuard", c, "none", None,
                                       NextOf(CanActivate(FALSE)), LoginUrl(url))
                      /\ UNCHANGED calls
                 ELSE /\ calls' = [calls EXCEPT ![c] = GuardWaiting(url)]
                      /\ last' = Event("authGuard", c, "/auth/refresh", None,
                                       None, "none")
                      /\ UNCHANGED routerUrl
            ELSE /\ last' = Event("authGuard", c, "none", None,
                                  ReturnOf(CanActivate(TRUE)), "none")
                 /\ UNCHANGED <<routerUrl, calls>>
    /\ UNCHANGED <<localStorage, currentUserSubject, reqs, now, loading>>

\* The refresh of a guard run succeeds: tap of refreshToken, then map(() => true).
AuthGuardRefreshNext(c, response) ==
    /\ calls[c].pc = "authGuard"
    /\ localStorage' = saveAuthData(localStorage, response)
    /\ currentUserSubject' = response.user
    /\ calls' = [calls EXCEPT ![c] = Idle]
    /\ last' = Event("authGuard.refresh.next", c, "none", NextOf(response),
                     NextOf(CanActivate(TRUE)), "none")
    /\ UNCHANGED <<routerUrl, reqs, now, loading>>

\* A guard whose catchError denies activation without the redirect.
AuthGuardRefreshError_NoNavigate(c, status) ==
    LET error == HttpErrorResponse(status, "/auth/refresh") IN
    /\ calls[c].pc = "authGuard"
    /\ localStorage' = clearAuthData(localStorage)
    /\ currentUserSubject' = null
    /\ calls' = [calls EXCEPT ![c] = Idle]
    /\ last' = Event("authGuard.refresh.error", c, "none", ErrorOf(error),
                     NextOf(CanActivate(FALSE)), "none")
    /\ UNCHANGED <<routerUrl, reqs, now, loading>>

\* The refresh of a guard run fails: catchError of refreshToken, then the
\* catchError of the guard (navigate, of(false)).
AuthGuardRefreshError(c, status) ==
    LET error == HttpErrorResponse(status, "/auth/refresh")
        url == calls[c].url
    IN
    /\ calls[c].pc = "authGuard"
    /\ localStorage' = clearAuthData(localStorage)
    /\ currentUserSubject' = null
    /\ routerUrl' = LoginUrl(url)
    /\ calls' = [calls EXCEPT ![c] = Idle]
    /\ last' = Event("authGuard.refresh.error", c, "none", ErrorOf(error),
                     NextOf(CanActivate(FALSE)), LoginUrl(url))
    /\ UNCHANGED <<reqs, now, loading>>

\* A publicAuthGuard that logs every authenticated user out and lets them in.
PublicAuthGuard_AlwaysLogout(c) ==
    /\ calls[c].pc = "idle"
    /\ IF isAuthenticated(localStorage)
       THEN /\ localStorage' = clearAuthData(localStorage)
            /\ currentUserSubject' = null
            /\ routerUrl' = "/auth/login"
            /\ last' = Event("publicAuthGuard", c, "none", None,
                             ReturnOf(CanActivate(TRUE)), "/auth/login")
       ELSE /\ last' = Event("publicAuthGuard", c, "none", None,
                             ReturnOf(CanActivate(TRUE)), "none")
            /\ UNCHANGED <<localStorage, currentUserSubject, routerUrl>>
    /\ UNCHANGED <<calls, reqs, now, loading>>

\* A publicAuthGuard that lets an expired session in without the logout.
PublicAuthGuard_NoLogout(c) ==
    /\ calls[c].pc = "idle"
    /\ IF isAuthenticated(localStorage) /\ ~isTokenExpired(localStorage, now)
       THEN /\ routerUrl' = "/app/dashboard"
            /\ last' = Event("publicAuthGuard", c, "none", None,
                             ReturnOf(CanActivate(FALSE)), "/app/dashboard")
       ELSE /\ last' = Event("publicAuthGuard", c, "none", None,
                             ReturnOf(CanActivate(TRUE)), "none")
            /\ UNCHANGED routerUrl
    /\ UNCHANGED <<localStorage, currentUserSubject, calls, reqs, now, loading>>

\* publicAuthGuard: it runs to its return without waiting for anything.
PublicAuthGuard(c) ==
    /\ calls[c].pc = "idle"
    /\ IF isAuthenticated(localStorage)
       THEN IF ~isTokenExpired(localStorage, now)
            THEN /\ routerUrl' = "/app/dashboard"
                 /\ last' = Event("publicAuthGuard", c, "none", None,
                                  ReturnOf(CanActivate(FALSE)), "/app/dashboard")
                 /\ UNCHANGED <<localStorage, currentUserSubject>>
            ELSE /\ localStorage' = clearAuthData(localStorage)
                 /\ currentUserSubject' = null
                 /\ routerUrl' = "/auth/login"
                 /\ last' = Event("publicAuthGuard", c, "none", None,
                                  ReturnOf(CanActivate(TRUE)), "/auth/login")
       ELSE /\ last' = Event("publicAuthGuard", c, "none", None,
                             ReturnOf(CanActivate(TRUE)), "none")
            /\ UNCHANGED <<localStorage, currentUserSubject, routerUrl>>
    /\ UNCHANGED <<calls, reqs, now, loading>>

\* What durable storage may hold when a guard or an expiry test runs: as
\* StoredSessions, with any storable string under auth_token.
StoredAnySessions ==
    { ls \in UNION { [ks -> StoredTokens \cup RefreshTokens
                            \cup { JSON_stringify(u) : u \in Users }]
                     : ks \in SUBSET {TOKEN_KEY, REFRESH_TOKEN_KEY, USER_KEY} } :
        /\ TOKEN_KEY \in DOMAIN ls => ls[TOKEN_KEY] \in StoredTokens
        /\ REFRESH_TOKEN_KEY \in DOMAIN ls => ls[REFRESH_TOKEN_KEY] \in RefreshTokens
        /\ USER_KEY \in DOMAIN ls => ls[USER_KEY] \in { JSON_stringify(u) : u \in Users } }

InitGuard ==
    /\ localStorage \in StoredAnySessions
    /\ currentUserSubject = getUserFromStorage(localStorage)
    /\ routerUrl = ""
    /\ calls = [c \in Callers |-> Idle]
    /\ reqs = [r \in ReqIds |-> NewRequest]
    /\ now = 0
    /\ loading = NewLoadingService
    /\ last = Event("constructor", 0, "none", None, None, "none")

\* Navigations through the two guards while time passes.
NextGuard ==
    \/ Tick
    \/ \E c \in Callers, url \in ProtectedUrls : AuthGuard(c, url)
    \/ \E c \in Callers, response \in AuthResponse : AuthGuardRefreshNext(c, response)
    \/ \E c \in Callers, status \in ErrorStatus : AuthGuardRefreshError(c, status)
    \/ \E c \in Callers : PublicAuthGuard(c)

SpecGuard == InitGuard /\ [][NextGuard]_vars

----------------------------------------------------------------------------
(* The expiry tests of AuthService as functions of storage and the clock *)

\* The answer of a boolean method.
Result(b) == [result |-> b]

\* A caller asks isTokenExpired().
IsTokenExpired ==
    /\ last' = Event("isTokenExpired", 0, "none", None,
                     ReturnOf(Result(isTokenExpired(localStorage, now))), "none")
    /\ UNCHANGED <<localStorage, currentUserSubject, routerUrl, calls, reqs, now, loading>>

\* A caller asks isTokenExpiringSoon() with the default of five minutes.
IsTokenExpiringSoon ==
    /\ last' = Event("isTokenExpiringSoon", 0, "none", None,
                     ReturnOf(Result(isTokenExpiringSoon(localStorage, now, 5))),
                     "none")
    /\ UNCHANGED <<localStorage, currentUserSubject, routerUrl, calls, reqs, now, loading>>

\* A caller asks isAuthenticated().
IsAuthenticated ==
    /\ last' = Event("isAuthenticated", 0, "none", None,
                     ReturnOf(Result(isAuthenticated(localStorage))), "none")
    /\ UNCHANGED <<localStorage, currentUserSubject, routerUrl, calls, reqs, now, loading>>

NextToken ==
    \/ Tick
    \/ IsTokenExpired
    \/ IsTokenExpiringSoon
    \/ IsAuthenticated

SpecToken == InitGuard /\ [][NextToken]_vars

----------------------------------------------------------------------------
(* LoadingService, driven by loadingInterceptor *)

MIN_DISPLAY_TIME == 600

\* Truthiness of a value of type number | null.
TruthyTime(v) == v # <<>> /\ v[1] # 0

Max(a, b) == IF a >= b THEN a ELSE b

\* What loadingSubject.next(b) hands to the subscribers of the subject.
Emitted(b) == NextOf(Result(b))

\* loadingInterceptor starts a request: loadingService.show().
Show ==
    /\ loading.requestCount < MaxInFlight
    /\ LET requestCount == loading.requestCount + 1 IN
       IF requestCount = 1
       THEN /\ loading' = [loading EXCEPT !.requestCount = requestCount,
                                          !.loadingStartTime = <<now>>,
                                          !.loadingSubject = TRUE]
            /\ last' = Event("show", 0, "none", None, Emitted(TRUE), "none")
       ELSE /\ loading' = [loading EXCEPT !.requestCount = requestCount]
            /\ last' = Event("show", 0, "none", None, None, "none")
    /\ UNCHANGED <<localStorage, currentUserSubject, routerUrl, calls, reqs, now>>

\* finalize of a request in flight: loadingService.hide().  At zero it hides
\* at once, or leaves the hiding to a setTimeout callback due after the rest
\* of the minimum display time.
Hide ==
    /\ loading.requestCount > 0
    /\ LET requestCount == loading.requestCount - 1 IN
       IF requestCount <= 0
       THEN IF TruthyTime(loading.loadingStartTime)
            THEN LET elapsed == now - loading.loadingStartTime[1]
                     remaining == Max(0, MIN_DISPLAY_TIME - elapsed)
                 IN  /\ Len(loading.timers) < MaxTimers
                     /\ loading' = [loading EXCEPT
                                       !.requestCount = 0,
                                       !.timers = Append(@, now + remaining)]
                     /\ last' = Event("hide", 0, "none", None, None, "none")
            ELSE /\ loading' = [loading EXCEPT !.requestCount = 0,
                                               !.loadingSubject = FALSE]
                 /\ last' = Event("hide", 0, "none", None, Emitted(FALSE), "none")
       ELSE /\ loading' = [loading EXCEPT !.requestCount = requestCount]
            /\ last' = Event("hide", 0, "none", None, None, "none")
    /\ UNCHANGED <<localStorage, currentUserSubject, routerUrl, calls, reqs, now>>

\* The timer that runs next: due, and no other timer is due before it or
\* was set before it for the same time.
NextTimer(i) ==
    /\ i \in 1..Len(loading.timers)
    /\ loading.timers[i] <= now
    /\ \A j \in 1..Len(loading.timers) :
          \/ loading.timers[j] > loading.timers[i]
          \/ (loading.timers[j] = loading.timers[i] /\ j >= i)

\* The callback handed to setTimeout in hide().
Timeout(i) ==
    /\ NextTimer(i)
    /\ loading' = [loading EXCEPT
                      !.loadingSubject = FALSE,
                      !.loadingStartTime = <<>>,
                      !.timers = SubSeq(@, 1, i - 1) \o SubSeq(@, i + 1, Len(@))]
    /\ last' = Event("timeout", 0, "none", None, Emitted(FALSE), "none")
    /\ UNCHANGED <<localStorage, currentUserSubject, routerUrl, calls, reqs, now>>

\* The application starts with nothing stored, at a clock reading after the
\* epoch.
InitLoading ==
    /\ localStorage = [k \in {} |-> ""]
    /\ currentUserSubject = null
    /\ routerUrl = ""
    /\ calls = [c \in Callers |-> Idle]
    /\ reqs = [r \in ReqIds |-> NewRequest]
    /\ now = TickMs
    /\ loading = NewLoadingService
    /\ last = Event("constructor", 0, "none", None, None, "none")

NextLoading ==
    \/ Tick
    \/ Show
    \/ Hide
    \/ \E i \in 1..MaxTimers : Timeout(i)

SpecLoading == InitLoading /\ [][NextLoading]_vars

----------------------------------------------------------------------------
(* Properties of AuthService, checked under Spec *)

StorageKeys == {TOKEN_KEY, REFRESH_TOKEN_KEY, USER_KEY}

\* The AuthResponse a completed AuthService callback received.
lastResponse == last.received.value

\* C1: in every state reached by interleaved login, register, refreshToken
\* (success or failure) and logout callbacks, from a service seeded from
\* durable storage, the Session State user is the user stored under
\* 'user_data', and it is null exactly when that key is absent.
C1_SessionMirrorsStorage ==
    /\ currentUserSubject = getUserFromStorage(localStorage)
    /\ (currentUserSubject = null) <=> (USER_KEY \notin DOMAIN localStorage)
    /\ currentUserSubject # null =>
          localStorage[USER_KEY] = JSON_stringify(currentUserSubject)

\* A refresh answered while another call is still in flight replaced the user
\* that was stored before.
C1_Witness ==
    /\ last.op = "refreshToken.next"
    /\ currentUserSubject = lastResponse.user
    /\ getItem(localStorage, USER_KEY) = JSON_stringify(lastResponse.user)
    /\ \E c \in Callers : calls[c].pc = "/auth/login"

\* A login response that carries all three members.
ValidResponse(response) ==
    /\ response \in AuthResponse
    /\ Truthy(response.accessToken)
    /\ Truthy(response.refreshToken)

\* C2: when login() resolves with a valid response {user, accessToken,
\* refreshToken}, whatever storage held before, the three keys hold exactly
\* the returned accessToken, refreshToken and serialized user, and Session
\* State holds the returned user.
C2_LoginStoresResponse ==
    (last.op = "login.next" /\ ValidResponse(lastResponse)) =>
        /\ DOMAIN localStorage = StorageKeys
        /\ localStorage[TOKEN_KEY] = lastResponse.accessToken
        /\ localStorage[REFRESH_TOKEN_KEY] = lastResponse.refreshToken
        /\ localStorage[USER_KEY] = JSON_stringify(lastResponse.user)
        /\ currentUserSubject = lastResponse.user

C2_Witness ==
    /\ last.op = "login.next"
    /\ ValidResponse(lastResponse)
    /\ localStorage[REFRESH_TOKEN_KEY] = "R2"
    /\ localStorage[TOKEN_KEY] = "T2"
    /\ currentUserSubject = "c@d.com"

\* C3 as stated: when the refresh call succeeds, the stored access token and
\* the stored refresh token are the ones of the response and Session State
\* holds the response's user, so that no token of the previous pair remains.
C3_RefreshReplacesBothTokens ==
    last.op = "refreshToken.next" =>
        /\ getToken(localStorage) = lastResponse.accessToken
        /\ getRefreshToken(localStorage) = lastResponse.refreshToken
        /\ currentUserSubject = lastResponse.user

\* C3 amended: when the refresh call succeeds, the stored access token and
\* user record are the ones of the response and Session State holds the
\* response's user; the stored refresh token is the one of the response when
\* the response carries one, and otherwise is left as it was.
C3_RefreshReplacesSession ==
    [][ last'.op = "refreshToken.next" =>
          LET response == last'.received.value IN
          /\ getToken(localStorage') = response.accessToken
          /\ getItem(localStorage', USER_KEY) = JSON_stringify(response.user)
          /\ currentUserSubject' = response.user
          /\ getRefreshToken(localStorage') =
                IF Truthy(response.refreshToken)
                THEN response.refreshToken
                ELSE getRefreshToken(localStorage) ]_vars

\* A refresh response without a refresh token left the old one in storage.
C3_Witness ==
    /\ last.op = "refreshToken.next"
    /\ ~Truthy(lastResponse.refreshToken)
    /\ getRefreshToken(localStorage) \in RefreshTokens
    /\ getToken(localStorage) = lastResponse.accessToken

\* C4: when the refresh network call fails, refreshToken() removes all three
\* storage keys, sets Session State to null and delivers the same error to
\* its caller.
C4_RefreshFailureClearsSession ==
    last.op = "refreshToken.error" =>
        /\ DOMAIN localStorage \cap StorageKeys = {}
        /\ currentUserSubject = null
        /\ last.delivered.kind = "error"
        /\ last.delivered = last.received

\* A refresh failed while another refresh is still in flight.
C4_Witness ==
    /\ last.op = "refreshToken.error"
    /\ last.delivered = ErrorOf(HttpErrorResponse(401, "/auth/refresh"))
    /\ localStorage = << >>
    /\ \E c \in Callers : calls[c].pc = "/auth/refresh"

\* C5: with no refresh token stored, refreshToken() fails with the local error
\* 'No refresh token available' and issues no request to /auth/refresh.
C5_RefreshWithoutTokenFailsFast ==
    [][ (last'.op = "refreshToken" /\ ~Truthy(getRefreshToken(localStorage))) =>
          /\ last'.delivered = ErrorOf(NoRefreshTokenError)
          /\ last'.delivered.value.message = "No refresh token available"
          /\ last'.sent = "none"
          /\ calls' = calls /\ reqs' = reqs ]_vars

\* The fail-fast path taken by a session that still holds an access token.
C5_Witness ==
    /\ last.op = "refreshToken"
    /\ last.delivered = ErrorOf(NoRefreshTokenError)
    /\ isAuthenticated(localStorage)
    /\ ~Truthy(getRefreshToken(localStorage))

\* C6: from any session state, logout() removes all three storage keys, sets
\* Session State to null and navigates to /auth/login in one synchronous step
\* that issues no backend request; right after it isAuthenticated() is false
\* and getCurrentUser() is null.
C6_LogoutTearsDownLocally ==
    [][ last'.op = "logout" =>
          /\ DOMAIN localStorage' \cap StorageKeys = {}
          /\ currentUserSubject' = null
          /\ routerUrl' = "/auth/login"
          /\ last'.navigated = "/auth/login"
          /\ ~isAuthenticated(localStorage')
          /\ last'.sent = "none"
          /\ calls' = calls /\ reqs' = reqs ]_vars

\* logout() ran on a full session while a refresh was in flight.
C6_Witness ==
    /\ last.op = "logout"
    /\ localStorage = << >>
    /\ currentUserSubject = null
    /\ routerUrl = "/auth/login"
    /\ \E c \in Callers : calls[c].pc = "/auth/refresh"

----------------------------------------------------------------------------
(* Properties of authInterceptor, checked under SpecHttp *)

\* Every request does at most one refresh and one retry.
OneRefreshOneRetry(r) ==
    /\ reqs[r].refreshCalls <= 1
    /\ reqs[r].sends <= 2
    /\ reqs[r].sends = 2 => reqs[r].refreshCalls = 1

\* C7: a 401 on a non-exempt request while a refresh token is stored makes the
\* interceptor call refreshToken() once; when that refresh succeeds the
\* original request is resubmitted exactly once with 'Authorization: Bearer
\* <accessToken of the refresh response>', and the caller receives what the
\* retried request answers.
C7_RefreshThenRetryOnce ==
    [][ \A r \in ReqIds :
          /\ OneRefreshOneRetry(r)'
          /\ (/\ last'.who = r
              /\ last'.op = "intercept.error"
              /\ reqs[r].pc = "sent"
              /\ last'.received.value.status = 401
              /\ Truthy(getRefreshToken(localStorage)))
             => /\ reqs'[r].pc = "refreshing"
                /\ reqs'[r].refreshCalls = 1
                /\ reqs'[r].sends = 1
                /\ last'.sent = "/auth/refresh"
          /\ (last'.who = r /\ last'.op = "intercept.refresh.next")
             => /\ reqs'[r].pc = "retrying"
                /\ reqs'[r].refreshCalls = 1
                /\ reqs'[r].sends = 2
                /\ last'.sent = reqs'[r].url
                /\ reqs'[r].authorization = Bearer(last'.received.value.accessToken)
          /\ (last'.who = r /\ last'.op \in {"intercept.retry.next", "intercept.retry.error"})
             => /\ reqs'[r].pc = "done"
                /\ reqs'[r].notified = 1
                /\ reqs'[r].sends = 2
                /\ reqs'[r].refreshCalls = 1
                /\ last'.sent = "none"
                /\ last'.delivered = last'.received ]_vars

\* A request first sent with T1 was retried with the refreshed T2 and its
\* caller got the retried answer.
C7_Witness ==
    \E r \in ReqIds :
        /\ last.who = r
        /\ last.op = "intercept.retry.next"
        /\ last.delivered = NextOf([data |-> "d2"])
        /\ reqs[r].authorization = Bearer("T2")
        /\ reqs[r].refreshCalls = 1
        /\ reqs[r].sends = 2

\* C8: for one logical request the refresh-and-retry path runs at most once:
\* when the retried request fails with 401 too, that error is surfaced to the
\* caller, and no second refresh call and no second retry is made.
C8_NoSecondRefresh ==
    /\ \A r \in ReqIds : OneRefreshOneRetry(r)
    /\ \A r \in ReqIds :
          (/\ last.who = r
           /\ last.op = "intercept.retry.error"
           /\ last.received.value.status = 401)
          => /\ reqs[r].pc = "done"
             /\ reqs[r].notified = 1
             /\ last.delivered = ErrorOf(HttpErrorResponse(401, reqs[r].url))
             /\ last.sent = "none"
             /\ reqs[r].refreshCalls = 1
             /\ reqs[r].sends = 2

\* The retry was answered 401 although a refresh token is stored again
\* (the other request refreshed in between).
C8_Witness ==
    \E r \in ReqIds :
        /\ last.who = r
        /\ last.op = "intercept.retry.error"
        /\ last.received.value.status = 401
        /\ reqs[r].pc = "done"
        /\ reqs[r].refreshCalls = 1

\* C9: for a non-exempt request, an error other than 401, and a 401 received
\* while no refresh token is stored, reaches the caller unchanged with no
\* refresh call, no retried request, no logout and no change to storage or
\* Session State.
C9_OtherErrorsPassThrough ==
    [][ \A r \in ReqIds :
          (/\ last'.who = r
           /\ last'.op = "intercept.error"
           /\ ~isPublicEndpoint(reqs[r].url)
           /\ \/ last'.received.value.status # 401
              \/ ~Truthy(getRefreshToken(localStorage)))
          => /\ last'.delivered = last'.received
             /\ last'.delivered.kind = "error"
             /\ last'.sent = "none"
             /\ last'.navigated = "none"
             /\ reqs'[r].pc = "done"
             /\ reqs'[r].refreshCalls = 0
             /\ reqs'[r].sends = 1
             /\ reqs'[r].logouts = 0
             /\ reqs'[r].notified = 1
             /\ localStorage' = localStorage
             /\ currentUserSubject' = currentUserSubject
             /\ routerUrl' = routerUrl ]_vars

\* A 401 reached the caller of a request that carried a token while no
\* refresh token was stored.
C9_Witness ==
    \E r \in ReqIds :
        /\ last.who = r
        /\ last.op = "intercept.error"
        /\ last.delivered = ErrorOf(HttpErrorResponse(401, "/api/devices"))
        /\ reqs[r].authorization = Bearer("T1")
        /\ isAuthenticated(localStorage)
        /\ ~Truthy(getRefreshToken(localStorage))

\* C10: when the refresh triggered by a 401 fails, the interceptor calls
\* logout, the caller of the original request receives an error (the original
\* 401 or the refresh error), and the original request is not retried.
C10_RefreshFailureLogsOut ==
    \A r \in ReqIds :
        (last.who = r /\ last.op = "intercept.refresh.error")
        => /\ reqs[r].logouts = 1
           /\ last.navigated = "/auth/login"
           /\ routerUrl = "/auth/login"
           /\ DOMAIN localStorage \cap StorageKeys = {}
           /\ currentUserSubject = null
           /\ last.delivered.kind = "error"
           /\ last.delivered.value \in
                 {last.received.value, HttpErrorResponse(401, reqs[r].url)}
           /\ reqs[r].pc = "done"
           /\ reqs[r].notified = 1
           /\ reqs[r].sends = 1

\* The refresh of one request failed while the other request was in flight.
C10_Witness ==
    \E r, q \in ReqIds :
        /\ last.who = r
        /\ last.op = "intercept.refresh.error"
        /\ last.delivered = ErrorOf(HttpErrorResponse(500, "/auth/refresh"))
        /\ reqs[r].logouts = 1
        /\ reqs[q].pc = "sent"

\* The endpoints the interceptor exempts, and the URLs that match them.
AllowList == {"/auth/login", "/auth/register", "/auth/refresh"}
MatchesAllowList(url) == \E endpoint \in AllowList : includes(url, endpoint)

\* C11: a request whose URL matches the allow-list (/auth/login,
\* /auth/register, /auth/refresh) passes through the interceptor unmodified:
\* it never carries an Authorization header, even when a token is stored, and
\* whatever answers it (a 401 included) reaches the caller as it came, with no
\* refresh call, no retry and no logout.
C11_AllowListPassesThrough ==
    [][ \A r \in ReqIds :
          (last'.who = r /\ MatchesAllowList(reqs'[r].url))
          => /\ reqs'[r].authorization = "none"
             /\ reqs'[r].refreshCalls = 0
             /\ reqs'[r].logouts = 0
             /\ reqs'[r].sends = 1
             /\ last'.op \in {"intercept", "intercept.next", "intercept.error"}
             /\ last'.op = "intercept"
                => /\ last'.sent = reqs'[r].url
                   /\ reqs'[r].pc = "public"
             /\ last'.op # "intercept"
                => /\ last'.sent = "none"
                   /\ last'.delivered = last'.received
                   /\ reqs'[r].pc = "done"
                   /\ reqs'[r].notified = 1
             /\ last'.navigated = "none"
             /\ localStorage' = localStorage
             /\ currentUserSubject' = currentUserSubject
             /\ routerUrl' = routerUrl ]_vars

\* A 401 on /auth/register reached the caller while both tokens were stored.
C11_Witness ==
    \E r \in ReqIds :
        /\ last.who = r
        /\ last.op = "intercept.error"
        /\ last.delivered = ErrorOf(HttpErrorResponse(401, "/auth/register"))
        /\ reqs[r].authorization = "none"
        /\ isAuthenticated(localStorage)
        /\ Truthy(getRefreshToken(localStorage))

\* C12: every non-exempt request handed to the network (first send or retry)
\* carries "Bearer <token>" with the access token stored at that moment, and
\* carries no Authorization header when no access token is stored.
C12_BearerOfStoredToken ==
    [][ \A r \in ReqIds :
          (/\ reqs'[r].sends = reqs[r].sends + 1
           /\ ~MatchesAllowList(reqs'[r].url))
          => /\ last'.who = r
             /\ last'.sent = reqs'[r].url
             /\ reqs'[r].authorization =
                   IF Truthy(getToken(localStorage'))
                   THEN Bearer(getToken(localStorage'))
                   ELSE "none" ]_vars

\* One request went out with the stored token T1; after a logout the other
\* one goes out with no header.
C12_Witness ==
    \E r, q \in ReqIds :
        /\ reqs[r].authorization = Bearer("T1")
        /\ reqs[r].sends = 1
        /\ last.who = q
        /\ last.op = "intercept"
        /\ last.sent = "/api/devices"
        /\ reqs[q].authorization = "none"
        /\ ~isAuthenticated(localStorage)

\* C13: the caller of a request gets at most one terminal notification
\* (a response or an error), and a request is finished exactly when its
\* caller got that one notification, refresh-and-retry included.
C13_OneTerminalOutcome ==
    \A r \in ReqIds :
        /\ reqs[r].notified <= 1
        /\ reqs[r].pc = "done" <=> reqs[r].notified = 1
        /\ (last.who = r /\ reqs[r].pc = "done") => last.delivered # None
        /\ (last.who = r /\ reqs[r].pc \notin {"idle", "done"})
           => last.delivered = None

\* A request that went through a refresh and a failed retry is finished with
\* one notification.
C13_Witness ==
    \E r \in ReqIds :
        /\ last.who = r
        /\ last.op = "intercept.retry.error"
        /\ reqs[r].pc = "done"
        /\ reqs[r].sends = 2
        /\ reqs[r].notified = 1

\* C14: non-exempt requests that each receive a 401 while a refresh token is
\* stored each start their own refresh call, also while the refresh of another
\* request is in flight; a successful refresh retries its own request once and
\* leaves the other requests alone, and the answer to a retry reaches the
\* caller of that request.
C14_NoCoalescing ==
    [][ \A r \in ReqIds :
          /\ (/\ last'.who = r
              /\ last'.op = "intercept.error"
              /\ last'.received.value.status = 401
              /\ ~MatchesAllowList(reqs[r].url)
              /\ Truthy(getRefreshToken(localStorage)))
             => /\ reqs'[r].pc = "refreshing"
                /\ reqs'[r].refreshCalls = 1
                /\ last'.sent = "/auth/refresh"
                /\ \A q \in ReqIds \ {r} : reqs'[q] = reqs[q]
          /\ (last'.who = r /\ last'.op = "intercept.refresh.next")
             => /\ reqs'[r].pc = "retrying"
                /\ reqs'[r].sends = 2
                /\ last'.sent = reqs'[r].url
                /\ \A q \in ReqIds \ {r} : reqs'[q] = reqs[q]
          /\ (last'.who = r /\ last'.op = "intercept.retry.next")
             => /\ last'.delivered = last'.received
                /\ reqs'[r].notified = 1
                /\ reqs'[r].refreshCalls = 1
                /\ reqs'[r].sends = 2
                /\ \A q \in ReqIds \ {r} : reqs'[q] = reqs[q] ]_vars

\* Two refresh calls are in flight at once, one per request.
C14_Witness ==
    \E r, q \in ReqIds :
        /\ r # q
        /\ last.who = r
        /\ last.op = "intercept.error"
        /\ reqs[r].pc = "refreshing"
        /\ reqs[r].refreshCalls = 1
        /\ reqs[q].pc = "refreshing"
        /\ reqs[q].refreshCalls = 1

----------------------------------------------------------------------------
(* Properties of the route guards, checked under SpecGuard *)

\* The session as a guard leaves it alone.
SessionUnchanged ==
    /\ localStorage' = localStorage
    /\ currentUserSubject' = currentUserSubject

\* C15: when isAuthenticated() is false, authGuard denies the activation of
\* any protected URL with a plain boolean false, sends the router to
\* /auth/login with returnUrl equal to the attempted URL, and makes no refresh
\* call (nor touches the session).
C15_UnauthenticatedDenied ==
    [][ \A c \in Callers, url \in ProtectedUrls :
          (AuthGuard(c, url) /\ ~isAuthenticated(localStorage))
          => /\ last'.delivered = ReturnOf(CanActivate(FALSE))
             /\ last'.navigated = LoginUrl(url)
             /\ routerUrl' = LoginUrl(url)
             /\ last'.sent = "none"
             /\ calls' = calls
             /\ SessionUnchanged ]_vars

\* An activation of /app/devices was denied although a refresh token was
\* stored: no access token, so no refresh.
C15_Witness ==
    /\ last.op = "authGuard"
    /\ last.delivered = ReturnOf(CanActivate(FALSE))
    /\ routerUrl = LoginUrl("/app/devices")
    /\ ~isAuthenticated(localStorage)
    /\ Truthy(getRefreshToken(localStorage))
    /\ \A c \in Callers : calls[c] = Idle

\* C16: when the user is authenticated and isTokenExpired() and
\* isTokenExpiringSoon() are both false, authGuard returns the boolean true
\* at once, without a navigation and without a refresh call.
C16_ValidTokenAllowed ==
    [][ \A c \in Callers, url \in ProtectedUrls :
          (/\ AuthGuard(c, url)
           /\ isAuthenticated(localStorage)
           /\ ~isTokenExpired(localStorage, now)
           /\ ~isTokenExpiringSoon(localStorage, now, 5))
          => /\ last'.delivered = ReturnOf(CanActivate(TRUE))
             /\ last'.navigated = "none"
             /\ routerUrl' = routerUrl
             /\ last'.sent = "none"
             /\ calls' = calls
             /\ SessionUnchanged ]_vars

\* T1 (expiry 600000) let a navigation through at 150000, more than five
\* minutes before it expires.
C16_Witness ==
    /\ last.op = "authGuard"
    /\ last.delivered = ReturnOf(CanActivate(TRUE))
    /\ getToken(localStorage) = "T1"
    /\ now = 150000

\* C17: when the user is authenticated and isTokenExpired() or
\* isTokenExpiringSoon() is true, authGuard returns no boolean but calls
\* refreshToken(); the run yields true iff that refresh succeeds, and when it
\* fails (the network call, or at once for want of a refresh token) the run
\* navigates to /auth/login with returnUrl the attempted URL and yields false.
C17_StaleTokenRefreshed ==
    [][ \A c \in Callers :
          /\ \A url \in ProtectedUrls :
                (/\ AuthGuard(c, url)
                 /\ isAuthenticated(localStorage)
                 /\ \/ isTokenExpired(localStorage, now)
                    \/ isTokenExpiringSoon(localStorage, now, 5))
                => /\ last'.delivered.kind # "return"
                   /\ SessionUnchanged
                   /\ IF Truthy(getRefreshToken(localStorage))
                      THEN /\ last'.sent = "/auth/refresh"
                           /\ calls'[c] = GuardWaiting(url)
                           /\ last'.delivered = None
                           /\ last'.navigated = "none"
                           /\ routerUrl' = routerUrl
                      ELSE /\ last'.sent = "none"
                           /\ calls' = calls
                           /\ last'.delivered = NextOf(CanActivate(FALSE))
                           /\ last'.navigated = LoginUrl(url)
                           /\ routerUrl' = LoginUrl(url)
          /\ (calls[c].pc = "authGuard" /\ last'.who = c /\ calls'[c] # calls[c])
             => /\ calls'[c] = Idle
                /\ last'.sent = "none"
                /\ last'.received.kind \in {"next", "error"}
                /\ last'.received.kind = "next"
                   => /\ last'.delivered = NextOf(CanActivate(TRUE))
                      /\ last'.navigated = "none"
                      /\ routerUrl' = routerUrl
                /\ last'.received.kind = "error"
                   => /\ last'.delivered = NextOf(CanActivate(FALSE))
                      /\ last'.navigated = LoginUrl(calls[c].url)
                      /\ routerUrl' = LoginUrl(calls[c].url) ]_vars

\* The refresh started for /app/dashboard failed and the run sent the router
\* to the login page with that URL.
C17_Witness ==
    /\ last.op = "authGuard.refresh.error"
    /\ last.received = ErrorOf(HttpErrorResponse(401, "/auth/refresh"))
    /\ last.delivered = NextOf(CanActivate(FALSE))
    /\ routerUrl = LoginUrl("/app/dashboard")

\* C18: when the user is authenticated and isTokenExpired() is false,
\* publicAuthGuard denies the activation and redirects the router to
\* /app/dashboard; storage and Session State stay as they are.
C18_PublicGuardRedirects ==
    [][ \A c \in Callers :
          (/\ PublicAuthGuard(c)
           /\ isAuthenticated(localStorage)
           /\ ~isTokenExpired(localStorage, now))
          => /\ last'.delivered = ReturnOf(CanActivate(FALSE))
             /\ last'.navigated = "/app/dashboard"
             /\ routerUrl' = "/app/dashboard"
             /\ last'.sent = "none"
             /\ calls' = calls
             /\ SessionUnchanged ]_vars

\* A logged-in user with the unexpired T1 was sent to the dashboard.
C18_Witness ==
    /\ last.op = "publicAuthGuard"
    /\ last.delivered = ReturnOf(CanActivate(FALSE))
    /\ routerUrl = "/app/dashboard"
    /\ getToken(localStorage) = "T1"
    /\ currentUserSubject = "a@b.com"
    /\ now = 450000

\* C19: when the user is authenticated but isTokenExpired() is true,
\* publicAuthGuard performs logout (storage and Session State cleared) and
\* allows the activation; when the user is not authenticated it allows the
\* activation and touches neither storage, Session State nor the router.
C19_PublicGuardAllows ==
    [][ \A c \in Callers :
          PublicAuthGuard(c)
          => /\ (isAuthenticated(localStorage) /\ isTokenExpired(localStorage, now))
                => /\ last'.delivered = ReturnOf(CanActivate(TRUE))
                   /\ DOMAIN localStorage' \cap StorageKeys = {}
                   /\ currentUserSubject' = null
                   /\ last'.navigated = "/auth/login"
                   /\ routerUrl' = "/auth/login"
                   /\ last'.sent = "none"
             /\ ~isAuthenticated(localStorage)
                => /\ last'.delivered = ReturnOf(CanActivate(TRUE))
                   /\ SessionUnchanged
                   /\ last'.navigated = "none"
                   /\ routerUrl' = routerUrl
                   /\ last'.sent = "none" ]_vars

\* The public guard logged out a session whose token T1 had expired at
\* 600000.
C19_Witness ==
    /\ last.op = "publicAuthGuard"
    /\ last.delivered = ReturnOf(CanActivate(TRUE))
    /\ last.navigated = "/auth/login"
    /\ now = 600000
    /\ DOMAIN localStorage \cap StorageKeys = {}
    /\ currentUserSubject = null

----------------------------------------------------------------------------
(* Properties of the expiry tests, checked under SpecToken *)

\* The stored access token decodes into claims that carry an expiration.
HasExpiration(ls) ==
    /\ Truthy(getToken(ls))
    /\ getToken(ls) \in DOMAIN jwtPayloads
    /\ "exp" \in DOMAIN jwtPayloads[getToken(ls)]

\* C20: isTokenExpired() never throws; it returns true when no access token
\* is stored, when the stored token cannot be decoded into claims with an
\* expiration, and when exp*1000 <= now; it returns false only for a
\* decodable token with exp*1000 > now.
C20_ExpiredUnlessFutureExp ==
    last.op = "isTokenExpired"
    => /\ last.delivered.kind = "return"
       /\ last.delivered.value.result =
             (\/ ~HasExpiration(localStorage)
              \/ jwtPayloads[getToken(localStorage)].exp * 1000 <= now)

\* Milliseconds from the clock reading to the expiry of the stored token.
TimeToExpiry == jwtPayloads[getToken(localStorage)].exp * 1000 - now

\* C21: for every stored token and every current time, isTokenExpiringSoon(5)
\* is true if and only if 0 < exp*1000 - now <= 5*60*1000; it is false for a
\* token that is already expired and for a token more than five minutes from
\* expiry.
C21_ExpiringSoonWindow ==
    last.op = "isTokenExpiringSoon"
    => /\ last.delivered.kind = "return"
       /\ last.delivered.value.result =
             (/\ HasExpiration(localStorage)
              /\ 0 < TimeToExpiry
              /\ TimeToExpiry <= 5 * 60 * 1000)

----------------------------------------------------------------------------
(* Further properties of AuthService, checked under Spec *)

\* C23: when the login or register network call fails, the caller receives
\* the backend error unchanged, the service sends no further request, and the
\* three storage keys and Session State stay exactly as they were.
C23_LoginFailureLeavesSession ==
    [][ \A c \in Callers :
          (/\ last'.who = c
           /\ calls[c].pc \in {"/auth/login", "/auth/register"}
           /\ last'.received.kind = "error")
          => /\ last'.delivered = last'.received
             /\ last'.sent = "none"
             /\ last'.navigated = "none"
             /\ calls'[c] = Idle
             /\ \A d \in Callers \ {c} : calls'[d] = calls[d]
             /\ localStorage' = localStorage
             /\ currentUserSubject' = currentUserSubject
             /\ routerUrl' = routerUrl ]_vars

\* A login was refused with 401 while an earlier session was stored; the
\* session is still there.
C23_Witness ==
    /\ last.op = "login.error"
    /\ last.delivered = ErrorOf(HttpErrorResponse(401, "/auth/login"))
    /\ getToken(localStorage) = "T1"
    /\ getRefreshToken(localStorage) = "R1"
    /\ currentUserSubject = "a@b.com"

\* What a successful login makes of storage and Session State.
SessionAfterLogin(ls, response) ==
    [storage |-> saveAuthData(ls, response), user |-> response.user]

\* C24: from the same prior state and for the same response, a successful
\* register() leaves durable storage and Session State exactly as a successful
\* login() does.
C24_RegisterAsLogin ==
    [][ \A c \in Callers :
          (last'.who = c /\ last'.op \in {"login.next", "register.next"})
          => /\ [storage |-> localStorage', user |-> currentUserSubject']
                = SessionAfterLogin(localStorage, last'.received.value)
             /\ last'.delivered = last'.received
             /\ last'.sent = "none"
             /\ routerUrl' = routerUrl
             /\ calls'[c] = Idle ]_vars

\* A registration answered with (c@d.com, T2, R2) replaced an earlier session.
C24_Witness ==
    /\ last.op = "register.next"
    /\ last.received.value.user = "c@d.com"
    /\ getToken(localStorage) = "T2"
    /\ getRefreshToken(localStorage) = "R2"
    /\ getItem(localStorage, USER_KEY) = JSON_stringify("c@d.com")
    /\ currentUserSubject = "c@d.com"

\* C25: once logout() has completed, the session stays Anonymous (no
\* auth_token, Session State null) until a login or register succeeds: the
\* callback that runs next, if it is not such a success, leaves the session
\* Anonymous, also when it is the answer to a refresh that was in flight when
\* logout ran.
C25_LogoutIsFinal ==
    [][ (last.op = "logout" /\ last'.op \notin {"login.next", "register.next"})
        => /\ TOKEN_KEY \notin DOMAIN localStorage'
           /\ currentUserSubject' = null ]_vars

----------------------------------------------------------------------------
(* Further properties of authInterceptor, checked under SpecHttp *)

\* C26: the interceptor calls logout only when the refresh itself failed:
\* when the refresh succeeded and the retried request fails, with 401 or any
\* other status, the session just refreshed stays as it is and the caller
\* gets the error of the retried request.
C26_LogoutOnlyOnRefreshFailure ==
    [][ \A r \in ReqIds :
          /\ reqs'[r].logouts > reqs[r].logouts
             => last'.op = "intercept.refresh.error"
          /\ (last'.who = r /\ last'.op = "intercept.retry.error")
             => /\ last'.delivered = last'.received
                /\ last'.navigated = "none"
                /\ localStorage' = localStorage
                /\ currentUserSubject' = currentUserSubject
                /\ routerUrl' = routerUrl ]_vars

----------------------------------------------------------------------------
(* Further properties of the route guards, checked under SpecGuard *)

----------------------------------------------------------------------------
(* Properties of LoadingService, checked under SpecLoading *)

\* C28: LoadingService hides the loading indicator only when the request
\* counter is zero: whenever show(), hide() or the callback of the
\* minimum-display timer sets the loading state to false, requestCount is 0.
C28_HidesOnlyAtZero ==
    [][ last'.delivered = Emitted(FALSE) => loading'.requestCount = 0 ]_vars

----------------------------------------------------------------------------
(* Properties of AuthService from empty storage, checked under SpecEmpty *)

\* C29: starting from empty storage, after any sequence of completed login,
\* register, refresh and logout operations, the access token is present in
\* storage if and only if Session State holds a non-null user.
C29_TokenIffUser ==
    (TOKEN_KEY \in DOMAIN localStorage) <=> (currentUserSubject # null)

\* A session opened by a login and renewed by a refresh holds token and user.
C29_Witness ==
    /\ last.op = "refreshToken.next"
    /\ getToken(localStorage) = "T2"
    /\ currentUserSubject = "c@d.com"
    /\ \E c \in Callers : calls[c].pc = "/auth/login"

----------------------------------------------------------------------------
(* The fail-fast path of refreshToken, checked under Spec *)

\* C30: refreshToken() called with no stored refresh token leaves storage and
\* Session State unchanged: it does not remove auth_token or user_data and
\* does not publish null, unlike a refresh whose network call failed.
C30_FailFastLeavesSession ==
    [][ \A c \in Callers :
          /\ (/\ last'.who = c
              /\ last'.op = "refreshToken"
              /\ ~Truthy(getRefreshToken(localStorage)))
             => /\ localStorage' = localStorage
                /\ getToken(localStorage') = getToken(localStorage)
                /\ getItem(localStorage', USER_KEY) = getItem(localStorage, USER_KEY)
                /\ currentUserSubject' = currentUserSubject
                /\ routerUrl' = routerUrl
          /\ (last'.who = c /\ last'.op = "refreshToken.error")
             => /\ DOMAIN localStorage' \cap StorageKeys = {}
                /\ currentUserSubject' = null ]_vars

\* refreshToken() failed fast on a session that held an access token and a
\* user; both are still there.
C30_Witness ==
    /\ last.op = "refreshToken"
    /\ last.delivered = ErrorOf(NoRefreshTokenError)
    /\ getToken(localStorage) = "T1"
    /\ getItem(localStorage, USER_KEY) = JSON_stringify("a@b.com")
    /\ currentUserSubject = "a@b.com"

====
